---------------------------- MODULE Spec2Model ----------------------------
(***************************************************************************)
(* Model of the layout engine of graphic_library: the item registry of the *)
(* base layout, the logical position table of LinearLayout and the grid    *)
(* configuration and cell placements of GridLayout.                        *)
(*                                                                         *)
(* Sequences are 1-based in TLA+: the C++ vector element v[i] is the       *)
(* element v[i + 1] of the sequence that models v.                         *)
(***************************************************************************)
EXTENDS Integers, Sequences, FiniteSets, TLC

(***************************************************************************)
(* Bounds of the model.                                                    *)
(***************************************************************************)
\* Number of distinct layout items a LinearLayout is given; the logical
\* position table, which the code can leave longer than the registry, is
\* followed up to this length.
MaxItems == 3
\* Largest number of columns and of rows given to GridLayout::setGrid.
MaxDim == 2
\* Largest cell coordinate and span given to GridLayout::addItem.
MaxCoord == 2

\* The null pointer, among the item handles.
NullItem == 0
\* The non-null item handles (pointers to externally owned items).
Items == 1 .. MaxItems
\* The `index` arguments tried: negative, in range, past the end.
Indices == -1 .. MaxItems

Min(a, b) == IF a <= b THEN a ELSE b
Max(a, b) == IF a >= b THEN a ELSE b

VARIABLES
  linItems,         \* LinearLayout: registry of the base layout, item -> id
  m_idsToPosition,  \* LinearLayout: the logical position table (a vector)
  linOp,            \* LinearLayout: the last call and its arguments
  linRet,           \* LinearLayout: the value returned by the last call
  linErr,           \* LinearLayout: the error raised by the last call
  linWarned         \* LinearLayout: the last call logged the consistency warning

linVars == <<linItems, m_idsToPosition, linOp, linRet, linErr, linWarned>>

VARIABLES
  gridItems,        \* GridLayout: registry of the base layout, item -> id
  m_columns,        \* GridLayout: number of columns (unsigned)
  m_rows,           \* GridLayout: number of rows (unsigned)
  m_columnsInfo,    \* GridLayout: one LineInfo per column (a vector)
  m_rowsInfo,       \* GridLayout: one LineInfo per row (a vector)
  m_locations,      \* GridLayout: cell placement of each id (a map)
  gridOp,           \* GridLayout: the last call and its arguments
  gridRet,          \* GridLayout: the value returned by the last call
  gridErr,          \* GridLayout: the error raised by the last call
  gridOob,          \* GridLayout: the last call wrote outside a LineInfo vector
  gridFault,        \* GridLayout: the process was stopped by a memory fault
  gridPlaced        \* GridLayout: item -> the placement its addItem recorded

gridVars == <<gridItems, m_columns, m_rows, m_columnsInfo, m_rowsInfo,
              m_locations, gridOp, gridRet, gridErr, gridOob, gridFault,
              gridPlaced>>

\* Two threads that each call addItem(item, index) once on the LinearLayout.
Threads == {1, 2}

VARIABLES
  thrPc,            \* thread -> the statement of addItem it is to run next
  thrIndex,         \* thread -> the `index` argument of its call
  thrId,            \* thread -> the id the base handler gave to its item
  thrNormalized,    \* thread -> its local `normalized`
  thrLoop,          \* thread -> the counter of its relabelling loop
  thrRead,          \* thread -> the element it loaded and is to store incremented
  thrRace,          \* an access to the vector was undefined
  thrCorrupt,       \* the members of the vector no longer describe one buffer
  thrFault          \* the process was stopped, or a call never returns

thrVars == <<thrPc, thrIndex, thrId, thrNormalized, thrLoop, thrRead, thrRace,
             thrCorrupt, thrFault>>

VARIABLES
  fairTotal,        \* FairAllocator: the space to distribute
  fairSlots,        \* FairAllocator: the slots, a sequence of LineInfo
  fairSizes,        \* FairAllocator: the sizes returned
  fairDone          \* FairAllocator: the sizes were computed

fairVars == <<fairTotal, fairSlots, fairSizes, fairDone>>

VARIABLES
  m_direction,       \* LinearLayout: direction of the layout, set at construction
  m_componentMargin, \* LinearLayout: margin between items, set at construction
  sizeOp,            \* LinearLayout: the last call of computeAvailableSize
  sizeRet            \* LinearLayout: the size it returned

sizeVars == <<m_direction, m_componentMargin, sizeOp, sizeRet>>

VARIABLES
  m_insertPolicy,   \* ComboBox: the insertion policy, set at construction
  m_items,          \* ComboBox: the items, a vector of {text, icon}
  m_activeItem,     \* ComboBox: index of the active item, -1 when none
  comboOp,          \* ComboBox: the last call and its arguments
  comboRet,         \* ComboBox: the pair returned by getIndexFromInsertPolicy
  comboErr          \* ComboBox: the error raised by the last call

comboVars == <<m_insertPolicy, m_items, m_activeItem, comboOp, comboRet, comboErr>>

VARIABLES
  m_state,          \* ComboBox: "Closed" or "Dropped"
  comboFault        \* ComboBox: a read outside m_items stopped the process

stateVars == <<m_state, comboFault>>

VARIABLES
  textConstructed,    \* TextBox: the constructor has run
  m_text,             \* TextBox: the text, a sequence of characters
  m_cursorIndex,      \* TextBox: index of the cursor in the text (unsigned)
  m_selectionStarted, \* TextBox: a selection is running (the byte of the bool)
  m_selectionStart,   \* TextBox: index where the selection started (unsigned)
  m_textChanged,      \* TextBox: the text is to be rendered again
  m_cursorChanged     \* TextBox: the cursor is to be rendered again (the byte)

textVars == <<textConstructed, m_text, m_cursorIndex, m_selectionStarted, m_selectionStart,
              m_textChanged, m_cursorChanged>>

(***************************************************************************)
(* Item registry of the base layout (sdl::core::Layout).  A registry is a  *)
(* function from the registered items to their allocation ids.             *)
(***************************************************************************)
EmptyRegistry == [i \in {} |-> 0]

getItemsCount(items) == Cardinality(DOMAIN items)

\* Layout::addItem: a null item fails with InvalidItem; otherwise the item
\* gets the next id, which is the current count.
Layout_addItem(items, item) ==
  IF item = NullItem
    THEN [items |-> items, id |-> -1, err |-> "InvalidItem"]
    ELSE [items |-> [i \in DOMAIN items \cup {item} |->
                       IF i = item THEN getItemsCount(items) ELSE items[i]],
          id    |-> getItemsCount(items),
          err   |-> "none"]

\* Layout::removeItem: an item that is not registered gives a negative id
\* and no change; otherwise the entry is removed and every id greater than
\* the removed one is decremented.
Layout_removeItem(items, item) ==
  IF item \notin DOMAIN items
    THEN [items |-> items, id |-> -1]
    ELSE [items |-> [i \in DOMAIN items \ {item} |->
                       IF items[i] > items[item] THEN items[i] - 1 ELSE items[i]],
          id    |-> items[item]]

(***************************************************************************)
(* LinearLayout.                                                           *)
(***************************************************************************)
\* std::vector::insert(cbegin() + pos, value)
VectorInsert(v, pos, value) ==
  [p \in 1 .. Len(v) + 1 |->
     IF p <= pos THEN v[p] ELSE IF p = pos + 1 THEN value ELSE v[p - 1]]

\* std::vector::erase(cbegin() + pos)
VectorErase(v, pos) ==
  [p \in 1 .. Len(v) - 1 |-> IF p <= pos THEN v[p] ELSE v[p + 1]]

\* The loop of addItem: every element >= normalized is incremented.
RelabelOnInsert(v, normalized) ==
  [p \in 1 .. Len(v) |-> IF v[p] >= normalized THEN v[p] + 1 ELSE v[p]]

\* LinearLayout::addItem(item, index) returning the normalized logical index
\* in place of the id given by the base handler.
LinearLayout_addItemAt_ReturnsIndex(items, table, item, index) ==
  LET added == Layout_addItem(items, item) IN
  IF added.err # "none"
    THEN [items |-> items, table |-> table, ret |-> -1, err |-> added.err]
  ELSE IF added.id < 0
    THEN [items |-> added.items, table |-> table, ret |-> added.id, err |-> "none"]
  ELSE
    LET normalized == Min(Max(0, index), getItemsCount(added.items) - 1) IN
    [items |-> added.items,
     table |-> VectorInsert(RelabelOnInsert(table, normalized), normalized, added.id),
     ret   |-> normalized,
     err   |-> "none"]

\* LinearLayout::addItem(item, index) normalizing the index against the item
\* count before the registration, as if the new item were not counted yet.
LinearLayout_addItemAt_CountBefore(items, table, item, index) ==
  LET added == Layout_addItem(items, item) IN
  IF added.err # "none"
    THEN [items |-> items, table |-> table, ret |-> -1, err |-> added.err]
  ELSE IF added.id < 0
    THEN [items |-> added.items, table |-> table, ret |-> added.id, err |-> "none"]
  ELSE
    LET normalized == Min(Max(0, index), Max(0, getItemsCount(items) - 1)) IN
    [items |-> added.items,
     table |-> VectorInsert(RelabelOnInsert(table, normalized), normalized, added.id),
     ret   |-> added.id,
     err   |-> "none"]

\* LinearLayout::addItem(item, index): the registry, the table, the value
\* returned and the error raised.
LinearLayout_addItemAt(items, table, item, index) ==
  LET added == Layout_addItem(items, item) IN
  IF added.err # "none"
    THEN [items |-> items, table |-> table, ret |-> -1, err |-> added.err]
  ELSE IF added.id < 0
    THEN [items |-> added.items, table |-> table, ret |-> added.id, err |-> "none"]
  ELSE
    LET normalized == Min(Max(0, index), getItemsCount(added.items) - 1) IN
    [items |-> added.items,
     table |-> VectorInsert(RelabelOnInsert(table, normalized), normalized, added.id),
     ret   |-> added.id,
     err   |-> "none"]

\* LinearLayout::addItem(item): the item goes at the end of the layout.
LinearLayout_addItem(items, table, item) ==
  LinearLayout_addItemAt(items, table, item, getItemsCount(items))

\* The loop of removeItem, element by element: an element greater than rmID
\* is decremented first, and is compared with rmID after that.
RelabelOnRemove(v, rmID) ==
  [p \in 1 .. Len(v) |-> IF v[p] > rmID THEN v[p] - 1 ELSE v[p]]

\* logicalIDOfRm at the end of the loop: the last index whose (rewritten)
\* element equals rmID, -1 when there is none.
LogicalIDOfRm(v, rmID) ==
  LET hits == {p \in 1 .. Len(v) : RelabelOnRemove(v, rmID)[p] = rmID} IN
  IF hits = {} THEN -1 ELSE (CHOOSE p \in hits : \A q \in hits : q <= p) - 1

\* LinearLayout::removeItem(item) without the early return on a failed
\* deletion: the loop over the table runs with the negative id.
LinearLayout_removeItem_NoEarlyReturn(items, table, item) ==
  LET removed       == Layout_removeItem(items, item)
      rewritten     == RelabelOnRemove(table, removed.id)
      logicalIDOfRm == LogicalIDOfRm(table, removed.id)
  IN  IF logicalIDOfRm < 0
        THEN [items |-> removed.items, table |-> rewritten,
              ret |-> removed.id, warned |-> TRUE]
        ELSE [items |-> removed.items, table |-> VectorErase(rewritten, logicalIDOfRm),
              ret |-> removed.id, warned |-> FALSE]

\* LinearLayout::removeItem(item).
LinearLayout_removeItem(items, table, item) ==
  LET removed == Layout_removeItem(items, item) IN
  IF removed.id < 0
    THEN [items |-> items, table |-> table, ret |-> removed.id, warned |-> FALSE]
  ELSE
    LET rewritten     == RelabelOnRemove(table, removed.id)
        logicalIDOfRm == LogicalIDOfRm(table, removed.id)
    IN  IF logicalIDOfRm < 0
          THEN [items |-> removed.items, table |-> rewritten,
                ret |-> removed.id, warned |-> TRUE]
          ELSE [items |-> removed.items, table |-> VectorErase(rewritten, logicalIDOfRm),
                ret |-> removed.id, warned |-> FALSE]

(***************************************************************************)
(* GridLayout.                                                             *)
(***************************************************************************)
\* std::min(a - b, v) on `unsigned` values (32 bits), for a, b and v below
\* 2^31: when a < b the difference wraps to a - b + 2^32, which is above
\* 2^31 and so above v.
MinSub32(a, b, v) == IF a >= b THEN Min(a - b, v) ELSE v

\* LineInfo{0u, 0.0f}
DefaultLineInfo == [min |-> 0, stretch |-> 0]

\* The minimums and stretches given to the setters.
LineValues == {0, 1}
\* The item handles given to the grid layout.
GridItems == {1}
\* The column and row counts given to setGrid.
Dims == 0 .. MaxDim
\* The cell coordinates and spans given to addItem.
Coords == 0 .. MaxCoord
\* The line indices given to the setters: lines of the grid, the index equal
\* to the count, indices past the count.
Lines == 0 .. (MaxDim + 1)

\* GridLayout::resetGridInfo keeping the entries already present, as
\* std::vector::resize would.
GridLayout_resetGridInfo_Keeps(info, count) ==
  [l \in 1 .. count |-> IF l <= Len(info) THEN info[l] ELSE DefaultLineInfo]

\* GridLayout::resetGridInfo, for one of the two vectors: `count` entries,
\* each the default LineInfo, whatever the vector held.
GridLayout_resetGridInfo(info, count) ==
  [l \in 1 .. count |-> DefaultLineInfo]

\* GridLayout::setGrid
GridLayout_setGrid(columnsInfo, rowsInfo, columns, rows) ==
  [columns     |-> columns,
   rows        |-> rows,
   columnsInfo |-> GridLayout_resetGridInfo(columnsInfo, columns),
   rowsInfo    |-> GridLayout_resetGridInfo(rowsInfo, rows)]

\* The outcomes of `info[line].field = value` after the guard
\* `if (line > count) error(...)`.  The vector holds `count` entries: the
\* index equal to `count` passes the guard and is written outside the
\* vector, which either goes unnoticed or stops the process.
SetLine(info, count, line, field, value) ==
  IF line > count
    THEN {[info |-> info, err |-> "OutOfRange", oob |-> FALSE, fault |-> FALSE]}
  ELSE IF line < Len(info)
    THEN {[info  |-> [info EXCEPT ![line + 1] = [@ EXCEPT ![field] = value]],
           err   |-> "none", oob |-> FALSE, fault |-> FALSE]}
  ELSE {[info |-> info, err |-> "none", oob |-> TRUE, fault |-> f] : f \in BOOLEAN}

\* GridLayout::setColumnHorizontalStretch
GridLayout_setColumnHorizontalStretch(columnsInfo, columns, column, stretch) ==
  SetLine(columnsInfo, columns, column, "stretch", stretch)

\* GridLayout::setColumnMinimumWidth
GridLayout_setColumnMinimumWidth(columnsInfo, columns, column, width) ==
  SetLine(columnsInfo, columns, column, "min", width)

\* GridLayout::setRowVerticalStretch
GridLayout_setRowVerticalStretch(rowsInfo, rows, row, stretch) ==
  SetLine(rowsInfo, rows, row, "stretch", stretch)

\* GridLayout::setRowMinimumHeight
GridLayout_setRowMinimumHeight(rowsInfo, rows, row, height) ==
  SetLine(rowsInfo, rows, row, "min", height)

\* GridLayout::setColumnsMinimumWidth
GridLayout_setColumnsMinimumWidth(columnsInfo, columns, width) ==
  [l \in 1 .. Len(columnsInfo) |->
     IF l <= columns THEN [columnsInfo[l] EXCEPT !.min = width] ELSE columnsInfo[l]]

\* GridLayout::setRowsMinimumHeight
GridLayout_setRowsMinimumHeight(rowsInfo, rows, height) ==
  [l \in 1 .. Len(rowsInfo) |->
     IF l <= rows THEN [rowsInfo[l] EXCEPT !.min = height] ELSE rowsInfo[l]]

\* The placement of GridLayout::addItem with the span clamped against the
\* column and row counts, not against what is left after the origin.
GridLayout_placement_SpanFromCount(columns, rows, x, y, w, h) ==
  [column |-> MinSub32(columns, 1, x),
   row    |-> MinSub32(rows, 1, y),
   width  |-> Min(columns, w),
   height |-> Min(rows, h)]

\* The placement GridLayout::addItem stores, in `unsigned` arithmetic.
GridLayout_placement(columns, rows, x, y, w, h) ==
  [column |-> MinSub32(columns, 1, x),
   row    |-> MinSub32(rows, 1, y),
   width  |-> MinSub32(columns, MinSub32(columns, 1, x), w),
   height |-> MinSub32(rows, MinSub32(rows, 1, y), h)]

\* m_locations[key] = value, on a map
MapAssign(map, key, value) ==
  [k \in DOMAIN map \cup {key} |-> IF k = key THEN value ELSE map[k]]

\* GridLayout::addItem recording the placement whatever the base handler
\* answered: a refused item leaves a placement under the id -1.
GridLayout_addItem_RecordsAnyway(items, locations, columns, rows, item, x, y, w, h) ==
  LET added == Layout_addItem(items, item) IN
  [items     |-> added.items,
   locations |-> MapAssign(locations, added.id,
                           GridLayout_placement(columns, rows, x, y, w, h)),
   ret       |-> added.id,
   err       |-> added.err]

\* GridLayout::addItem: an error raised by the base handler leaves the
\* layout as it was.
GridLayout_addItem(items, locations, columns, rows, item, x, y, w, h) ==
  LET added == Layout_addItem(items, item) IN
  IF added.err # "none"
    THEN [items |-> items, locations |-> locations, ret |-> -1, err |-> added.err]
    ELSE [items     |-> added.items,
          locations |-> MapAssign(locations, added.id,
                                  GridLayout_placement(columns, rows, x, y, w, h)),
          ret       |-> added.id,
          err       |-> "none"]

(***************************************************************************)
(* LinearLayout::computeAvailableSize.  A size is {w, h}; the floats of    *)
(* the code are whole numbers here.                                        *)
(***************************************************************************)
Directions == {"Horizontal", "Vertical"}

\* computeAvailableSize taking the margins off the other axis.
LinearLayout_computeAvailableSize_CrossAxis(internalSize, direction, itemsCount, margin) ==
  IF direction = "Horizontal"
    THEN [w |-> internalSize.w, h |-> internalSize.h - (itemsCount - 1) * margin]
    ELSE [w |-> internalSize.w - (itemsCount - 1) * margin, h |-> internalSize.h]

\* computeAvailableSize: internalSize is what Layout::computeAvailableSize
\* returned for the area.
LinearLayout_computeAvailableSize(internalSize, direction, itemsCount, margin) ==
  IF direction = "Horizontal"
    THEN [w |-> internalSize.w - (itemsCount - 1) * margin, h |-> internalSize.h - 0]
    ELSE [w |-> internalSize.w - 0, h |-> internalSize.h - (itemsCount - 1) * margin]

\* The margins and the base sizes tried.
MaxMargin == 2
MaxLength == 3
Sizes == [w : 0 .. MaxLength, h : 0 .. MaxLength]

(***************************************************************************)
(* FairAllocator: distribute(total, slots), in whole units.  A slot is a   *)
(* LineInfo, {min, stretch}.                                               *)
(***************************************************************************)
RECURSIVE SeqSum(_)
SeqSum(v) == IF v = <<>> THEN 0 ELSE v[1] + SeqSum(Tail(v))

\* Every slot weighs the same, whatever its stretch.
FairWeights_Even(slots) == [i \in 1 .. Len(slots) |-> 1]

\* The weight of each slot in the distribution of the remainder: its
\* stretch, or 1 for every slot when all stretches are 0 or there is one
\* slot.
FairWeights(slots) ==
  IF Len(slots) = 1 \/ \A i \in 1 .. Len(slots) : slots[i].stretch = 0
    THEN [i \in 1 .. Len(slots) |-> 1]
    ELSE [i \in 1 .. Len(slots) |-> slots[i].stretch]

\* The truncated share of each slot in `remaining`.
FairShares(remaining, weights) ==
  [i \in 1 .. Len(weights) |-> (remaining * weights[i]) \div SeqSum(weights)]

\* distribute without the redistribution of what the truncation left.
Distribute_Truncated(total, slots) ==
  LET minimums == [i \in 1 .. Len(slots) |-> slots[i].min] IN
  IF slots = <<>> THEN <<>>
  ELSE IF total < SeqSum(minimums) THEN minimums
  ELSE
    LET shares == FairShares(total - SeqSum(minimums), FairWeights(slots)) IN
    [i \in 1 .. Len(slots) |-> minimums[i] + shares[i]]

\* distribute(total, slots): the minimums are reserved, the remainder is
\* shared in proportion of the weights and truncated, and the units the
\* truncation left go one by one to the earliest slots that take a share.
Distribute(total, slots) ==
  LET minimums == [i \in 1 .. Len(slots) |-> slots[i].min] IN
  IF slots = <<>> THEN <<>>
  ELSE IF total < SeqSum(minimums) THEN minimums
  ELSE
    LET remaining == total - SeqSum(minimums)
        weights   == FairWeights(slots)
        shares    == FairShares(remaining, weights)
        leftover  == remaining - SeqSum(shares)
        rank(i)   == Cardinality({j \in 1 .. i : weights[j] > 0})
    IN  [i \in 1 .. Len(slots) |->
           minimums[i] + shares[i]
             + (IF weights[i] > 0 /\ rank(i) <= leftover THEN 1 ELSE 0)]

\* The column widths of the recompute of a GridLayout: the allocator over
\* the column LineInfo against the available width.
GridLayout_columnWidths(columnsInfo, width) == Distribute(width, columnsInfo)

\* The inputs tried: totals up to MaxTotal and the width of the worked
\* example, up to MaxSlots slots.
MaxTotal == 6
MaxSlots == 3
ExampleWidth == 400
FairTotals == (0 .. MaxTotal) \cup {ExampleWidth}
FairMinimums == {0, 1}
FairStretches == {0, 1, 2}
FairLineInfos == [min : FairMinimums, stretch : FairStretches]
FairSlots == UNION {[1 .. n -> FairLineInfos] : n \in 0 .. MaxSlots}

(***************************************************************************)
(* ComboBox.  An item is {text, icon}; a text is a number and the order of *)
(* the numbers is the order std::string::compare gives to the texts.       *)
(***************************************************************************)
MaxComboItems == 3
ComboTexts == {1, 2, 3}
ComboIcons == {0, 1}
ComboIndices == -1 .. (MaxComboItems + 1)
InsertPolicies ==
  {"NoInsert", "InsertAtTop", "InsertAtCurrent", "InsertAtBottom",
   "InsertAfterCurrent", "InsertBeforeCurrent", "InsertAlphabetically"}

ComboBox_getItemsCount(items) == Len(items)

ComboBox_hasActiveItem(activeItem) == activeItem >= 0

ComboBox_getActiveItem(activeItem) == activeItem

\* insertItem putting the new item after the item at `index` instead of
\* before it.
ComboBox_insertItem_AfterIndex(items, activeItem, index, text, icon) ==
  LET item == [text |-> text, icon |-> icon] IN
  [items |-> IF index < 0 THEN VectorInsert(items, 0, item)
             ELSE IF index >= ComboBox_getItemsCount(items) THEN Append(items, item)
             ELSE VectorInsert(items, index + 1, item),
   activeItem |-> IF ComboBox_hasActiveItem(activeItem) /\ activeItem >= index
                    THEN activeItem + 1 ELSE activeItem]

\* ComboBox::insertItem(index, text, icon)
ComboBox_insertItem(items, activeItem, index, text, icon) ==
  LET item == [text |-> text, icon |-> icon] IN
  [items |-> IF index < 0 THEN VectorInsert(items, 0, item)
             ELSE IF index >= ComboBox_getItemsCount(items) THEN Append(items, item)
             ELSE VectorInsert(items, index, item),
   activeItem |-> IF ComboBox_hasActiveItem(activeItem) /\ activeItem >= index
                    THEN activeItem + 1 ELSE activeItem]

\* removeItem erasing the item before the check of the index.
ComboBox_removeItem_ErasesFirst(items, activeItem, index) ==
  LET erased == IF items = <<>> THEN items
                ELSE VectorErase(items, Min(Max(index, 0), Len(items) - 1))
  IN  IF index < 0 \/ index >= ComboBox_getItemsCount(items)
        THEN [items |-> erased, activeItem |-> activeItem, err |-> "No such item"]
        ELSE [items |-> erased,
              activeItem |-> IF activeItem = index /\ activeItem >= ComboBox_getItemsCount(erased)
                               THEN ComboBox_getItemsCount(erased) - 1
                               ELSE activeItem,
              err |-> "none"]

\* ComboBox::removeItem(index)
ComboBox_removeItem(items, activeItem, index) ==
  IF index < 0 \/ index >= ComboBox_getItemsCount(items)
    THEN [items |-> items, activeItem |-> activeItem, err |-> "No such item"]
    ELSE
      LET erased == VectorErase(items, index) IN
      [items |-> erased,
       activeItem |-> IF activeItem = index /\ activeItem >= ComboBox_getItemsCount(erased)
                        THEN ComboBox_getItemsCount(erased) - 1
                        ELSE activeItem,
       err |-> "none"]

\* ComboBox::setActiveItem(index)
ComboBox_setActiveItem(items, activeItem, index) ==
  IF index < 0 \/ index >= ComboBox_getItemsCount(items)
    THEN [activeItem |-> activeItem, err |-> "No such item"]
    ELSE [activeItem |-> index, err |-> "none"]

\* The loop of getIndexFromInsertPolicy from `id` on: every item whose text
\* is less than `text` overwrites the rank with id - 1 (-1 for id 0, the
\* unsigned difference converted to int).
RECURSIVE AlphabeticalRankLoop(_, _, _, _)
AlphabeticalRankLoop(items, text, id, alphabeticalRank) ==
  IF id >= Len(items) THEN alphabeticalRank
  ELSE AlphabeticalRankLoop(items, text, id + 1,
         IF items[id + 1].text < text THEN id - 1 ELSE alphabeticalRank)

\* alphabeticalRank once clamped with std::max(alphabeticalRank, 0)
AlphabeticalRank(items, text) ==
  Max(AlphabeticalRankLoop(items, text, 0, ComboBox_getItemsCount(items)), 0)

\* ComboBox::getIndexFromInsertPolicy(text): the pair returned, or the
\* error raised.
ComboBox_getIndexFromInsertPolicy(items, activeItem, policy, text) ==
  LET alphabeticalRank == AlphabeticalRank(items, text)
      pair(index, replace) == [index |-> index, replace |-> replace, err |-> "none"]
  IN  CASE policy = "InsertAtTop" -> pair(0, FALSE)
        [] policy = "InsertAtCurrent" -> pair(ComboBox_getActiveItem(activeItem), TRUE)
        [] policy = "InsertAtBottom" -> pair(ComboBox_getItemsCount(items), FALSE)
        [] policy = "InsertAfterCurrent" -> pair(ComboBox_getActiveItem(activeItem) + 1, FALSE)
        [] policy = "InsertBeforeCurrent" -> pair(ComboBox_getActiveItem(activeItem), FALSE)
        [] policy = "InsertAlphabetically" -> pair(alphabeticalRank, FALSE)
        [] OTHER -> [index |-> 0, replace |-> FALSE, err |-> "Invalid policy"]

\* Default of the constructor's maxVisibleItems.
m_maxVisibleItems == 5

\* ComboBox::getVisibleItemsCount: at least one, and the minimum of the
\* items count and the maximum visible count.
ComboBox_getVisibleItemsCount(items) ==
  Max(1, Min(ComboBox_getItemsCount(items), m_maxVisibleItems))

\* setState posting its resize event and refreshing the item widgets even
\* when the state asked for is the current one.
ComboBox_setState_AlwaysResizes(current, state, items, activeItem) ==
  [state   |-> state,
   resized |-> TRUE,
   reads   |-> IF ComboBox_getVisibleItemsCount(items) >= 1 THEN {activeItem} ELSE {}]

\* ComboBox::setState(state): the new state, whether a resize event was
\* posted, and the indices of m_items read by the loop over the visible
\* items.
ComboBox_setState(current, state, items, activeItem) ==
  IF current = state
    THEN [state |-> current, resized |-> FALSE, reads |-> {}]
    ELSE [state   |-> state,
          resized |-> TRUE,
          reads   |-> IF ComboBox_getVisibleItemsCount(items) >= 1
                        THEN {activeItem} ELSE {}]

\* ComboBox::mouseButtonReleaseEvent, `inside` being the answer of
\* isInsideWidget for the position of the mouse.
ComboBox_mouseButtonReleaseEvent(current, items, activeItem, inside) ==
  IF ~inside THEN ComboBox_setState(current, "Closed", items, activeItem)
  ELSE IF current = "Closed" THEN ComboBox_setState(current, "Dropped", items, activeItem)
  ELSE [state |-> current, resized |-> FALSE, reads |-> {}]

\* The indices of `reads` are all inside the vector.
ReadsInside(reads, items) == reads \subseteq (0 .. ComboBox_getItemsCount(items) - 1)

(***************************************************************************)
(* TextBox.  The indices are `unsigned`; none of the differences taken     *)
(* below is negative.                                                      *)
(***************************************************************************)
MaxTextLen == 3
TextChars == {"a", "b"}
Texts == UNION {[1 .. n -> TextChars] : n \in 0 .. MaxTextLen}
\* Values of an unsigned index: inside every text, and one past the longest.
TextPositions == 0 .. (MaxTextLen + 1)

\* A bool member is held as its byte: 0 is false, 1 is true.  A member the
\* constructor left without a value holds any byte; 2 stands for the bytes
\* that are neither 0 nor 1, and a read of such a bool gives true or false,
\* not the same in every function.
ReadBool(byte) == IF byte = 0 THEN {FALSE} ELSE IF byte = 1 THEN {TRUE} ELSE BOOLEAN

\* The value updateCursorToPosition(pos) gives to m_cursorIndex.
TextBox_updateCursorToPosition(text, pos) == Min(Len(text), pos)

\* The value updateCursorPosition(motion, fastForward) gives to
\* m_cursorIndex.
TextBox_updateCursorPosition(text, cursorIndex, motion, fastForward) ==
  IF text = <<>> THEN TextBox_updateCursorToPosition(text, 0)
  ELSE IF motion = "Left"
    THEN IF fastForward THEN TextBox_updateCursorToPosition(text, 0)
         ELSE IF cursorIndex > 0
           THEN TextBox_updateCursorToPosition(text, cursorIndex - 1)
           ELSE cursorIndex
    ELSE IF fastForward THEN TextBox_updateCursorToPosition(text, Len(text))
         ELSE IF cursorIndex < Len(text)
           THEN TextBox_updateCursorToPosition(text, cursorIndex + 1)
           ELSE cursorIndex

\* std::string::substr(pos, n) raises std::out_of_range when pos is past
\* the end of the string; otherwise it gives the characters from pos, n of
\* them or up to the end.
SubstrThrows(text, pos) == pos > Len(text)
Substr(text, pos, n) == SubSeq(text, pos + 1, Min(pos + n, Len(text)))

TextBox_hasLeftTextPart(cursorIndex, started, start) ==
  (IF started THEN Min(cursorIndex, start) ELSE cursorIndex) > 0

TextBox_getLeftText(text, cursorIndex, started, start) ==
  Substr(text, 0, IF started THEN Min(cursorIndex, start) ELSE cursorIndex)

TextBox_hasSelectedTextPart(cursorIndex, started, start) ==
  IF ~started THEN FALSE ELSE Min(cursorIndex, start) # Max(cursorIndex, start)

TextBox_getSelectedText(text, cursorIndex, started, start) ==
  IF ~started THEN <<>>
  ELSE Substr(text, Min(start, cursorIndex),
              Max(start, cursorIndex) - Min(start, cursorIndex))

TextBox_hasRightTextPart(text, cursorIndex, started, start) ==
  (IF started THEN Max(cursorIndex, start) ELSE cursorIndex) < Len(text)

TextBox_getRightText(text, cursorIndex, started, start) ==
  Substr(text, IF started THEN Max(cursorIndex, start) ELSE cursorIndex, Len(text))

(***************************************************************************)
(* Initial state: an empty LinearLayout, and a GridLayout with no item and *)
(* no column nor row.                                                      *)
(***************************************************************************)
notLinVars == <<gridVars, thrVars, fairVars, sizeVars, comboVars, stateVars, textVars>>
notGridVars == <<linVars, thrVars, fairVars, sizeVars, comboVars, stateVars, textVars>>
notThrVars == <<gridVars, fairVars, sizeVars, comboVars, stateVars, textVars>>
notFairVars == <<linVars, gridVars, thrVars, sizeVars, comboVars, stateVars, textVars>>
notSizeVars == <<linVars, gridVars, thrVars, fairVars, comboVars, stateVars, textVars>>
notComboVars == <<linVars, gridVars, thrVars, fairVars, sizeVars, stateVars, textVars>>
notStateVars == <<linVars, gridVars, thrVars, fairVars, sizeVars, textVars>>
notTextVars == <<linVars, gridVars, thrVars, fairVars, sizeVars, comboVars, stateVars>>

LinInit ==
  /\ linItems = EmptyRegistry
  /\ m_idsToPosition = <<>>
  /\ linOp = [op |-> "none", item |-> NullItem, index |-> 0]
  /\ linRet = 0
  /\ linErr = "none"
  /\ linWarned = FALSE

GridInit ==
  /\ gridItems = EmptyRegistry
  /\ m_columns = 0
  /\ m_rows = 0
  /\ m_columnsInfo = <<>>
  /\ m_rowsInfo = <<>>
  /\ m_locations = [k \in {} |-> 0]
  /\ gridOp = [op |-> "none"]
  /\ gridRet = 0
  /\ gridErr = "none"
  /\ gridOob = FALSE
  /\ gridFault = FALSE
  /\ gridPlaced = [i \in {} |-> 0]

ThrInit ==
  /\ thrPc = [t \in Threads |-> "ready"]
  /\ thrIndex = [t \in Threads |-> 0]
  /\ thrId = [t \in Threads |-> -1]
  /\ thrNormalized = [t \in Threads |-> 0]
  /\ thrLoop = [t \in Threads |-> 0]
  /\ thrRead = [t \in Threads |-> 0]
  /\ thrRace = FALSE
  /\ thrCorrupt = FALSE
  /\ thrFault = FALSE

\* No allocation asked for.
FairInit ==
  /\ fairTotal = 0
  /\ fairSlots = <<>>
  /\ fairSizes = <<>>
  /\ fairDone = FALSE

\* An allocation about to be computed, for any total and any slots.
FairInitAny ==
  /\ fairTotal \in FairTotals
  /\ fairSlots \in FairSlots
  /\ fairSizes = <<>>
  /\ fairDone = FALSE

\* A horizontal layout without margin, on which no size was asked for.
SizeInit ==
  /\ m_direction = "Horizontal"
  /\ m_componentMargin = 0
  /\ sizeOp = [op |-> "none"]
  /\ sizeRet = [w |-> 0, h |-> 0]

\* A layout constructed with any direction and any margin.
SizeInitAny ==
  /\ m_direction \in Directions
  /\ m_componentMargin \in 0 .. MaxMargin
  /\ sizeOp = [op |-> "none"]
  /\ sizeRet = [w |-> 0, h |-> 0]

\* An empty, closed combobox without active item.
ComboEmpty ==
  /\ m_items = <<>>
  /\ m_activeItem = -1
  /\ comboOp = [op |-> "none"]
  /\ comboRet = [index |-> 0, replace |-> FALSE]
  /\ comboErr = "none"

ComboInit == m_insertPolicy = "InsertAtBottom" /\ ComboEmpty

StateInit == m_state = "Closed" /\ comboFault = FALSE

\* No TextBox is constructed yet: its members belong to no object.  The
\* values given to them here are read by no action and no property; the
\* constructor gives the members their first values.
TextInit ==
  /\ textConstructed = FALSE
  /\ m_text = <<>>
  /\ m_cursorIndex = 0
  /\ m_selectionStarted = 0
  /\ m_selectionStart = 0
  /\ m_textChanged = FALSE
  /\ m_cursorChanged = 0

\* A combobox constructed with any policy.
ComboInitAny == m_insertPolicy \in InsertPolicies /\ ComboEmpty

(***************************************************************************)
(* Calls on the LinearLayout.                                              *)
(***************************************************************************)
\* A call of LinearLayout::addItem(item, index).  An item is added to a
\* layout once: the calls tried give the null item or an unregistered one.
LinAddItemAt ==
  \E item \in (Items \ DOMAIN linItems) \cup {NullItem}, index \in Indices :
    LET r == LinearLayout_addItemAt(linItems, m_idsToPosition, item, index) IN
    /\ Len(r.table) <= MaxItems
    /\ linItems' = r.items
    /\ m_idsToPosition' = r.table
    /\ linOp' = [op |-> "addItemAt", item |-> item, index |-> index]
    /\ linRet' = r.ret
    /\ linErr' = r.err
    /\ linWarned' = FALSE
    /\ UNCHANGED notLinVars

\* A call of LinearLayout::addItem(item).
LinAddItem ==
  \E item \in (Items \ DOMAIN linItems) \cup {NullItem} :
    LET r == LinearLayout_addItem(linItems, m_idsToPosition, item) IN
    /\ Len(r.table) <= MaxItems
    /\ linItems' = r.items
    /\ m_idsToPosition' = r.table
    /\ linOp' = [op |-> "addItem", item |-> item, index |-> getItemsCount(linItems)]
    /\ linRet' = r.ret
    /\ linErr' = r.err
    /\ linWarned' = FALSE
    /\ UNCHANGED notLinVars

\* A call of LinearLayout::removeItem(item), of a registered item or not.
LinRemoveItem ==
  \E item \in Items :
    LET r == LinearLayout_removeItem(linItems, m_idsToPosition, item) IN
    /\ linItems' = r.items
    /\ m_idsToPosition' = r.table
    /\ linOp' = [op |-> "removeItem", item |-> item, index |-> 0]
    /\ linRet' = r.ret
    /\ linErr' = "none"
    /\ linWarned' = r.warned
    /\ UNCHANGED notLinVars

\* A call of LinearLayout::computeAvailableSize(totalArea); internalSize is
\* the size the base method gave for totalArea and count the value of
\* getItemsCount() in the call.
LinComputeAvailableSize ==
  \E internalSize \in Sizes :
    /\ sizeOp' = [op |-> "computeAvailableSize", internalSize |-> internalSize,
                  count |-> getItemsCount(linItems)]
    /\ sizeRet' = LinearLayout_computeAvailableSize(internalSize, m_direction,
                      getItemsCount(linItems), m_componentMargin)
    /\ UNCHANGED <<m_direction, m_componentMargin>>
    /\ UNCHANGED notSizeVars

(***************************************************************************)
(* Two concurrent calls of LinearLayout::addItem(item, index).  The method *)
(* takes no lock: the other thread can run between any two of its          *)
(* statements, between two iterations of its loop, and between the load    *)
(* and the store of an increment.  Thread t adds the item t.               *)
(*                                                                         *)
(* From the first test of its loop to its return (part_001:58-69) a call   *)
(* reads and writes m_idsToPosition: its size, its buffer, its elements.   *)
(* An access made while the other call is between its own first access and *)
(* its return races with it, which is undefined: the size or the buffer    *)
(* read can be the one of before the other insertion, a store can land in  *)
(* a buffer that was freed, an insertion can copy a buffer that was freed, *)
(* be lost, or leave the vector with the members of two buffers.  From     *)
(* then on (thrRace) every access of either call does what its statement   *)
(* says or ends as ThrUndefined says.  A call that waits before its first  *)
(* access while the other runs to its return races with nothing: its steps *)
(* are the statements of the code.                                         *)
(***************************************************************************)
\* Thread t accesses the vector while the other call is between its first
\* access to the vector and its return.
ThrRaces(t) ==
  \E u \in Threads \ {t} :
    \/ thrPc[u] \in {"load", "store", "insert"}
    \/ thrPc[u] = "test" /\ thrLoop[u] > 0

\* A word that no call stored, as a read of freed memory or of another
\* buffer returns it.  It stands for every integer that is no position of
\* the layout: a comparison with it goes either way, and incremented it is
\* such a word again.
ThrGarbage == -1

\* The outcome of an undefined access by thread t.  The call returns or it
\* does not: the process is stopped or the call never returns (thrFault,
\* nothing runs after it).  When it returns the vector is left in any state:
\* its members describe no single buffer (thrCorrupt: begin in the buffer of
\* one call and end in the buffer of the other, size() is a wild number and
\* the elements cannot be read), or it holds any elements, at most one for
\* each registered item, each a position or a word that no call stored.
ThrUndefined(t) ==
  /\ thrPc' = [thrPc EXCEPT ![t] = "done"]
  /\ thrRace' = TRUE
  /\ \/ /\ thrFault' = TRUE
        /\ UNCHANGED <<m_idsToPosition, thrCorrupt>>
     \/ /\ thrCorrupt' = TRUE
        /\ UNCHANGED <<m_idsToPosition, thrFault>>
     \/ /\ thrCorrupt' = FALSE
        /\ m_idsToPosition' \in
             UNION {[1 .. n -> (0 .. getItemsCount(linItems)) \cup {ThrGarbage}] :
                      n \in 0 .. getItemsCount(linItems)}
        /\ UNCHANGED thrFault
  /\ UNCHANGED <<linItems, linOp, linRet, linErr, linWarned,
                 thrIndex, thrId, thrNormalized, thrLoop, thrRead>>
  /\ UNCHANGED notThrVars

\* int id = Layout::addItem(item): the base handler registers the item.
ThrRegister(t) ==
  \E index \in Indices :
    LET added == Layout_addItem(linItems, t) IN
    /\ thrPc[t] = "ready"
    /\ ~thrFault
    /\ linItems' = added.items
    /\ thrPc' = [thrPc EXCEPT ![t] = "registered"]
    /\ thrIndex' = [thrIndex EXCEPT ![t] = index]
    /\ thrId' = [thrId EXCEPT ![t] = added.id]
    /\ UNCHANGED <<m_idsToPosition, linOp, linRet, linErr, linWarned,
                   thrNormalized, thrLoop, thrRead, thrRace, thrCorrupt, thrFault>>
    /\ UNCHANGED notThrVars

\* int normalized = std::min(std::max(0, index), getItemsCount() - 1), with
\* the item count read now; the loop counter starts at 0.
ThrNormalize(t) ==
  /\ thrPc[t] = "registered"
  /\ ~thrFault
  /\ thrNormalized' = [thrNormalized EXCEPT
                         ![t] = Min(Max(0, thrIndex[t]), getItemsCount(linItems) - 1)]
  /\ thrLoop' = [thrLoop EXCEPT ![t] = 0]
  /\ thrPc' = [thrPc EXCEPT ![t] = "test"]
  /\ UNCHANGED <<linItems, m_idsToPosition, linOp, linRet, linErr, linWarned,
                 thrIndex, thrId, thrRead, thrRace, thrCorrupt, thrFault>>
  /\ UNCHANGED notThrVars

\* id < m_idsToPosition.size(): the test of the loop, with the size read
\* now; undefined once the accesses race (a build that reads the bounds of
\* the vector once before the loop then tests against the old ones) or the
\* vector is corrupt.
ThrLoopTest(t) ==
  /\ thrPc[t] = "test"
  /\ ~thrFault
  /\ \/ /\ ~thrCorrupt
        /\ thrPc' = [thrPc EXCEPT
                       ![t] = IF thrLoop[t] < Len(m_idsToPosition)
                                THEN "load" ELSE "insert"]
        /\ thrRace' = (thrRace \/ ThrRaces(t))
        /\ UNCHANGED <<linItems, m_idsToPosition, linOp, linRet, linErr, linWarned,
                       thrIndex, thrId, thrNormalized, thrLoop, thrRead,
                       thrCorrupt, thrFault>>
        /\ UNCHANGED notThrVars
     \/ /\ thrRace \/ ThrRaces(t)
        /\ ThrUndefined(t)

\* m_idsToPosition[id] >= normalized: the element is loaded and compared; an
\* element below `normalized` ends the iteration.  The read is undefined
\* once the accesses race, and when the vector is corrupt or no longer
\* holds the element.
ThrLoopLoad(t) ==
  /\ thrPc[t] = "load"
  /\ ~thrFault
  /\ \/ /\ ~thrCorrupt
        /\ thrLoop[t] < Len(m_idsToPosition)
        /\ LET element == m_idsToPosition[thrLoop[t] + 1] IN
           \E atLeast \in (IF element = ThrGarbage
                             THEN BOOLEAN
                             ELSE {element >= thrNormalized[t]}) :
             IF atLeast
               THEN /\ thrRead' = [thrRead EXCEPT ![t] = element]
                    /\ thrPc' = [thrPc EXCEPT ![t] = "store"]
                    /\ UNCHANGED thrLoop
               ELSE /\ thrLoop' = [thrLoop EXCEPT ![t] = thrLoop[t] + 1]
                    /\ thrPc' = [thrPc EXCEPT ![t] = "test"]
                    /\ UNCHANGED thrRead
        /\ thrRace' = (thrRace \/ ThrRaces(t))
        /\ UNCHANGED <<linItems, m_idsToPosition, linOp, linRet, linErr, linWarned,
                       thrIndex, thrId, thrNormalized, thrCorrupt, thrFault>>
        /\ UNCHANGED notThrVars
     \/ /\ thrRace \/ ThrRaces(t) \/ thrLoop[t] >= Len(m_idsToPosition)
        /\ ThrUndefined(t)

\* ++m_idsToPosition[id]: the element is stored incremented, and the
\* iteration ends.  The element may have been written by the other thread
\* since it was compared: the value incremented is the one loaded for the
\* comparison or the one the vector holds now, as the build loads it once or
\* twice.  The write is undefined once the accesses race, and when the
\* vector is corrupt or no longer holds the element.
ThrLoopStore(t) ==
  /\ thrPc[t] = "store"
  /\ ~thrFault
  /\ \/ /\ ~thrCorrupt
        /\ thrLoop[t] < Len(m_idsToPosition)
        /\ \E element \in {thrRead[t], m_idsToPosition[thrLoop[t] + 1]} :
             m_idsToPosition' =
               [m_idsToPosition EXCEPT
                  ![thrLoop[t] + 1] = IF element = ThrGarbage
                                        THEN ThrGarbage ELSE element + 1]
        /\ thrRead' = [thrRead EXCEPT ![t] = 0]
        /\ thrLoop' = [thrLoop EXCEPT ![t] = thrLoop[t] + 1]
        /\ thrPc' = [thrPc EXCEPT ![t] = "test"]
        /\ thrRace' = (thrRace \/ ThrRaces(t))
        /\ UNCHANGED <<linItems, linOp, linRet, linErr, linWarned,
                       thrIndex, thrId, thrNormalized, thrCorrupt, thrFault>>
        /\ UNCHANGED notThrVars
     \/ /\ thrRace \/ ThrRaces(t) \/ thrLoop[t] >= Len(m_idsToPosition)
        /\ ThrUndefined(t)

\* m_idsToPosition.insert(cbegin() + normalized, id) and the return.  The
\* insertion is undefined once the accesses race, and when the vector is
\* corrupt or `normalized` is past its end.
ThrInsert(t) ==
  /\ thrPc[t] = "insert"
  /\ ~thrFault
  /\ \/ /\ ~thrCorrupt
        /\ thrNormalized[t] <= Len(m_idsToPosition)
        /\ m_idsToPosition' =
             VectorInsert(m_idsToPosition, thrNormalized[t], thrId[t])
        /\ thrPc' = [thrPc EXCEPT ![t] = "done"]
        /\ thrRace' = (thrRace \/ ThrRaces(t))
        /\ UNCHANGED <<linItems, linOp, linRet, linErr, linWarned,
                       thrIndex, thrId, thrNormalized, thrLoop, thrRead,
                       thrCorrupt, thrFault>>
        /\ UNCHANGED notThrVars
     \/ /\ thrRace \/ ThrRaces(t) \/ thrNormalized[t] > Len(m_idsToPosition)
        /\ ThrUndefined(t)

\* What the two calls leave when they run one after the other, first then
\* second, on the empty layout.
SerialOutcome(first, second) ==
  LET r1 == LinearLayout_addItemAt(EmptyRegistry, <<>>, first, thrIndex[first])
      r2 == LinearLayout_addItemAt(r1.items, r1.table, second, thrIndex[second])
  IN  <<r2.items, r2.table>>

(***************************************************************************)
(* The allocator applied to the inputs drawn.                              *)
(***************************************************************************)
FairDistribute ==
  /\ ~fairDone
  /\ fairSizes' = Distribute(fairTotal, fairSlots)
  /\ fairDone' = TRUE
  /\ UNCHANGED <<fairTotal, fairSlots>>
  /\ UNCHANGED notFairVars

(***************************************************************************)
(* Calls on the ComboBox.                                                  *)
(***************************************************************************)
\* A call of ComboBox::insertItem(index, text, icon), as long as the
\* combobox holds less than MaxComboItems items and m_activeItem stays at
\* most MaxComboItems.
ComboInsertItem ==
  \E index \in ComboIndices, text \in ComboTexts, icon \in ComboIcons :
    LET r == ComboBox_insertItem(m_items, m_activeItem, index, text, icon) IN
    /\ Len(m_items) < MaxComboItems
    /\ r.activeItem <= MaxComboItems
    /\ m_items' = r.items
    /\ m_activeItem' = r.activeItem
    /\ comboOp' = [op |-> "insertItem", index |-> index, text |-> text, icon |-> icon]
    /\ comboRet' = [index |-> 0, replace |-> FALSE]
    /\ comboErr' = "none"
    /\ UNCHANGED m_insertPolicy
    /\ UNCHANGED notComboVars

\* A call of ComboBox::removeItem(index).
ComboRemoveItem ==
  \E index \in ComboIndices :
    LET r == ComboBox_removeItem(m_items, m_activeItem, index) IN
    /\ m_items' = r.items
    /\ m_activeItem' = r.activeItem
    /\ comboOp' = [op |-> "removeItem", index |-> index]
    /\ comboRet' = [index |-> 0, replace |-> FALSE]
    /\ comboErr' = r.err
    /\ UNCHANGED m_insertPolicy
    /\ UNCHANGED notComboVars

\* A call of ComboBox::setActiveItem(index).
ComboSetActiveItem ==
  \E index \in ComboIndices :
    LET r == ComboBox_setActiveItem(m_items, m_activeItem, index) IN
    /\ m_activeItem' = r.activeItem
    /\ comboOp' = [op |-> "setActiveItem", index |-> index]
    /\ comboRet' = [index |-> 0, replace |-> FALSE]
    /\ comboErr' = r.err
    /\ UNCHANGED <<m_insertPolicy, m_items>>
    /\ UNCHANGED notComboVars

\* A call of ComboBox::getIndexFromInsertPolicy(text).
ComboGetIndexFromInsertPolicy ==
  \E text \in ComboTexts :
    LET r == ComboBox_getIndexFromInsertPolicy(m_items, m_activeItem,
                                               m_insertPolicy, text) IN
    /\ comboOp' = [op |-> "getIndexFromInsertPolicy", text |-> text]
    /\ comboRet' = [index |-> r.index, replace |-> r.replace]
    /\ comboErr' = r.err
    /\ UNCHANGED <<m_insertPolicy, m_items, m_activeItem>>
    /\ UNCHANGED notComboVars

\* A mouse button released inside or outside the combobox.  A read outside
\* m_items is undefined: the process goes on with whatever was read, or is
\* stopped.
ComboMouseButtonRelease ==
  \E inside \in BOOLEAN :
    LET r == ComboBox_mouseButtonReleaseEvent(m_state, m_items, m_activeItem, inside) IN
    /\ m_state' = r.state
    /\ comboOp' = [op |-> "mouseButtonReleaseEvent", inside |-> inside,
                   from |-> m_state, resized |-> r.resized, reads |-> r.reads]
    /\ comboRet' = [index |-> 0, replace |-> FALSE]
    /\ comboErr' = "none"
    /\ IF ReadsInside(r.reads, m_items)
         THEN comboFault' = FALSE
         ELSE comboFault' \in BOOLEAN
    /\ UNCHANGED <<m_insertPolicy, m_items, m_activeItem>>
    /\ UNCHANGED notStateVars

(***************************************************************************)
(* Calls on the TextBox.                                                   *)
(***************************************************************************)
\* TextBox::TextBox(name, font, text, size): the text is the one given, the
\* cursor is at 0 and the text is marked changed.  The constructor gives no
\* value to m_selectionStarted, m_selectionStart and m_cursorChanged: they
\* hold whatever the memory held.  Every selection start past the end of the
\* longest text acts as MaxTextLen + 1 does.
TextConstruct ==
  \E text \in Texts, started \in 0 .. 2, start \in TextPositions,
     cursorChanged \in 0 .. 2 :
    /\ ~textConstructed
    /\ textConstructed' = TRUE
    /\ m_text' = text
    /\ m_cursorIndex' = 0
    /\ m_textChanged' = TRUE
    /\ m_selectionStarted' = started
    /\ m_selectionStart' = start
    /\ m_cursorChanged' = cursorChanged
    /\ UNCHANGED notTextVars

\* The cursor goes to newIndex: the text and the cursor are marked changed
\* when the index changes.
TextMoveCursor(newIndex) ==
  /\ m_cursorIndex' = newIndex
  /\ m_textChanged' = (m_textChanged \/ newIndex # m_cursorIndex)
  /\ m_cursorChanged' = IF newIndex # m_cursorIndex THEN 1 ELSE m_cursorChanged

\* A call of TextBox::updateCursorPosition(motion, fastForward).
TextUpdateCursorPosition ==
  \E motion \in {"Left", "Right"}, fastForward \in BOOLEAN :
    /\ textConstructed
    /\ TextMoveCursor(TextBox_updateCursorPosition(m_text, m_cursorIndex,
                                                   motion, fastForward))
    /\ UNCHANGED <<textConstructed, m_text, m_selectionStarted, m_selectionStart>>
    /\ UNCHANGED notTextVars

\* A call of TextBox::updateCursorToPosition(pos).
TextUpdateCursorToPosition ==
  \E pos \in TextPositions :
    /\ textConstructed
    /\ TextMoveCursor(TextBox_updateCursorToPosition(m_text, pos))
    /\ UNCHANGED <<textConstructed, m_text, m_selectionStarted, m_selectionStart>>
    /\ UNCHANGED notTextVars

\* A call of TextBox::addCharToText(c), as long as the text holds less than
\* MaxTextLen characters.
TextAddCharToText ==
  \E c \in TextChars :
    /\ textConstructed
    /\ Len(m_text) < MaxTextLen
    /\ m_text' = VectorInsert(m_text, m_cursorIndex, c)
    /\ m_cursorIndex' = m_cursorIndex + 1
    /\ m_textChanged' = TRUE
    /\ UNCHANGED <<textConstructed, m_selectionStarted, m_selectionStart,
                   m_cursorChanged>>
    /\ UNCHANGED notTextVars

\* A call of TextBox::startSelection().
TextStartSelection ==
  /\ textConstructed
  /\ m_selectionStarted' = 1
  /\ m_selectionStart' = m_cursorIndex
  /\ UNCHANGED <<textConstructed, m_text, m_cursorIndex, m_textChanged,
                 m_cursorChanged>>
  /\ UNCHANGED notTextVars

\* A call of TextBox::stopSelection().
TextStopSelection ==
  /\ textConstructed
  /\ \E started \in ReadBool(m_selectionStarted) :
       IF ~started
         THEN UNCHANGED <<m_selectionStarted, m_textChanged, m_cursorChanged>>
         ELSE /\ m_selectionStarted' = 0
              /\ m_textChanged' = (m_textChanged \/ m_selectionStart # m_cursorIndex)
              /\ m_cursorChanged' = IF m_selectionStart # m_cursorIndex
                                      THEN 1 ELSE m_cursorChanged
  /\ UNCHANGED <<textConstructed, m_text, m_cursorIndex, m_selectionStart>>
  /\ UNCHANGED notTextVars

(***************************************************************************)
(* Calls on the GridLayout.  No call is made once a memory fault stopped   *)
(* the process.                                                            *)
(***************************************************************************)
\* Some LineInfo entry differs from the default one.
LinesConfigured ==
  \/ \E l \in 1 .. Len(m_columnsInfo) : m_columnsInfo[l] # DefaultLineInfo
  \/ \E l \in 1 .. Len(m_rowsInfo) : m_rowsInfo[l] # DefaultLineInfo

\* A call of GridLayout::setGrid(columns, rows).
GridSetGrid ==
  \E columns \in Dims, rows \in Dims :
    LET r == GridLayout_setGrid(m_columnsInfo, m_rowsInfo, columns, rows) IN
    /\ ~gridFault
    /\ m_columns' = r.columns
    /\ m_rows' = r.rows
    /\ m_columnsInfo' = r.columnsInfo
    /\ m_rowsInfo' = r.rowsInfo
    /\ gridOp' = [op |-> "setGrid", columns |-> columns, rows |-> rows,
                  configured |-> LinesConfigured]
    /\ gridRet' = 0
    /\ gridErr' = "none"
    /\ gridOob' = FALSE
    /\ UNCHANGED <<gridItems, m_locations, gridFault>>
    /\ UNCHANGED gridPlaced
    /\ UNCHANGED notGridVars

\* The effect of a setter of a column LineInfo, given its outcome.
ColumnSetterStep(name, column, out) ==
  /\ ~gridFault
  /\ m_columnsInfo' = out.info
  /\ gridOp' = [op |-> name, axis |-> "column", line |-> column]
  /\ gridRet' = 0
  /\ gridErr' = out.err
  /\ gridOob' = out.oob
  /\ gridFault' = out.fault
  /\ UNCHANGED <<gridItems, m_columns, m_rows, m_rowsInfo, m_locations>>
  /\ UNCHANGED gridPlaced
  /\ UNCHANGED notGridVars

\* The effect of a setter of a row LineInfo, given its outcome.
RowSetterStep(name, row, out) ==
  /\ ~gridFault
  /\ m_rowsInfo' = out.info
  /\ gridOp' = [op |-> name, axis |-> "row", line |-> row]
  /\ gridRet' = 0
  /\ gridErr' = out.err
  /\ gridOob' = out.oob
  /\ gridFault' = out.fault
  /\ UNCHANGED <<gridItems, m_columns, m_rows, m_columnsInfo, m_locations>>
  /\ UNCHANGED gridPlaced
  /\ UNCHANGED notGridVars

\* A call of GridLayout::setColumnHorizontalStretch(column, stretch).
GridSetColumnHorizontalStretch ==
  \E column \in Lines, stretch \in LineValues :
    \E out \in GridLayout_setColumnHorizontalStretch(m_columnsInfo, m_columns,
                                                     column, stretch) :
      ColumnSetterStep("setColumnHorizontalStretch", column, out)

\* A call of GridLayout::setColumnMinimumWidth(column, width).
GridSetColumnMinimumWidth ==
  \E column \in Lines, width \in LineValues :
    \E out \in GridLayout_setColumnMinimumWidth(m_columnsInfo, m_columns,
                                                column, width) :
      ColumnSetterStep("setColumnMinimumWidth", column, out)

\* A call of GridLayout::setRowVerticalStretch(row, stretch).
GridSetRowVerticalStretch ==
  \E row \in Lines, stretch \in LineValues :
    \E out \in GridLayout_setRowVerticalStretch(m_rowsInfo, m_rows, row, stretch) :
      RowSetterStep("setRowVerticalStretch", row, out)

\* A call of GridLayout::setRowMinimumHeight(row, height).
GridSetRowMinimumHeight ==
  \E row \in Lines, height \in LineValues :
    \E out \in GridLayout_setRowMinimumHeight(m_rowsInfo, m_rows, row, height) :
      RowSetterStep("setRowMinimumHeight", row, out)

\* A call of GridLayout::setColumnsMinimumWidth(width).
GridSetColumnsMinimumWidth ==
  \E width \in LineValues :
    /\ ~gridFault
    /\ m_columnsInfo' = GridLayout_setColumnsMinimumWidth(m_columnsInfo, m_columns, width)
    /\ gridOp' = [op |-> "setColumnsMinimumWidth"]
    /\ gridRet' = 0
    /\ gridErr' = "none"
    /\ gridOob' = FALSE
    /\ UNCHANGED <<gridItems, m_columns, m_rows, m_rowsInfo, m_locations, gridFault>>
    /\ UNCHANGED gridPlaced
    /\ UNCHANGED notGridVars

\* A call of GridLayout::setRowsMinimumHeight(height).
GridSetRowsMinimumHeight ==
  \E height \in LineValues :
    /\ ~gridFault
    /\ m_rowsInfo' = GridLayout_setRowsMinimumHeight(m_rowsInfo, m_rows, height)
    /\ gridOp' = [op |-> "setRowsMinimumHeight"]
    /\ gridRet' = 0
    /\ gridErr' = "none"
    /\ gridOob' = FALSE
    /\ UNCHANGED <<gridItems, m_columns, m_rows, m_columnsInfo, m_locations, gridFault>>
    /\ UNCHANGED gridPlaced
    /\ UNCHANGED notGridVars

\* A call of GridLayout::addItem(item, x, y, w, h) of an item the layout
\* does not hold.
GridAddItem ==
  \E item \in GridItems \ DOMAIN gridItems,
     x \in Coords, y \in Coords, w \in Coords, h \in Coords :
    LET r == GridLayout_addItem(gridItems, m_locations, m_columns, m_rows,
                                item, x, y, w, h) IN
    /\ ~gridFault
    /\ gridItems' = r.items
    /\ m_locations' = r.locations
    /\ gridOp' = [op |-> "addItem", item |-> item, x |-> x, y |-> y, w |-> w, h |-> h]
    /\ gridRet' = r.ret
    /\ gridErr' = r.err
    /\ gridOob' = FALSE
    /\ gridPlaced' = MapAssign(gridPlaced, item, r.locations[r.ret])
    /\ UNCHANGED <<m_columns, m_rows, m_columnsInfo, m_rowsInfo, gridFault>>
    /\ UNCHANGED notGridVars

\* The two item handles given to a grid layout whose items are removed.
GridPairItems == {1, 2}

\* A call of GridLayout::addItem(item, x, 0, 1, 1) of one of two items the
\* layout does not hold.
GridAddPairItem ==
  \E item \in GridPairItems \ DOMAIN gridItems,
     x \in Coords, y \in {0}, w \in {1}, h \in {1} :
    LET r == GridLayout_addItem(gridItems, m_locations, m_columns, m_rows,
                                item, x, y, w, h) IN
    /\ ~gridFault
    /\ gridItems' = r.items
    /\ m_locations' = r.locations
    /\ gridOp' = [op |-> "addItem", item |-> item, x |-> x, y |-> y, w |-> w, h |-> h]
    /\ gridRet' = r.ret
    /\ gridErr' = r.err
    /\ gridOob' = FALSE
    /\ gridPlaced' = MapAssign(gridPlaced, item, r.locations[r.ret])
    /\ UNCHANGED <<m_columns, m_rows, m_columnsInfo, m_rowsInfo, gridFault>>
    /\ UNCHANGED notGridVars

\* A call of removeItem(item) on the GridLayout, which has no removeItem of
\* its own: the call is the one of the base layout, and m_locations is left
\* as it is.
GridRemoveItem ==
  \E item \in GridPairItems :
    LET removed == Layout_removeItem(gridItems, item) IN
    /\ ~gridFault
    /\ gridItems' = removed.items
    /\ gridOp' = [op |-> "removeItem", item |-> item]
    /\ gridRet' = removed.id
    /\ gridErr' = "none"
    /\ gridOob' = FALSE
    /\ gridPlaced' = [i \in DOMAIN gridPlaced \ {item} |-> gridPlaced[i]]
    /\ UNCHANGED <<m_columns, m_rows, m_columnsInfo, m_rowsInfo, m_locations,
                   gridFault>>
    /\ UNCHANGED notGridVars

\* A call of GridLayout::addItem(nullptr, x, y, w, h); the cell asked for is
\* not kept in gridOp.
GridAddNullItem ==
  \E x \in Coords, y \in Coords, w \in Coords, h \in Coords :
    LET r == GridLayout_addItem(gridItems, m_locations, m_columns, m_rows,
                                NullItem, x, y, w, h) IN
    /\ ~gridFault
    /\ gridItems' = r.items
    /\ m_locations' = r.locations
    /\ gridOp' = [op |-> "addItem", item |-> NullItem]
    /\ gridRet' = r.ret
    /\ gridErr' = r.err
    /\ gridOob' = FALSE
    /\ UNCHANGED <<m_columns, m_rows, m_columnsInfo, m_rowsInfo, gridFault>>
    /\ UNCHANGED gridPlaced
    /\ UNCHANGED notGridVars

(***************************************************************************)
(* Specifications.  The setters of the lines and the placement of items    *)
(* act on disjoint parts of the GridLayout state (the LineInfo vectors;    *)
(* the registry and m_locations) and read nothing of each other's part, so *)
(* each is followed with setGrid in a specification of its own.            *)
(***************************************************************************)
vars == <<linVars, gridVars, thrVars, fairVars, sizeVars, comboVars, stateVars, textVars>>

Init == LinInit /\ GridInit /\ ThrInit /\ FairInit /\ SizeInit /\ ComboInit /\ StateInit /\ TextInit

LinNext == LinAddItemAt \/ LinAddItem \/ LinRemoveItem

GridLinesNext ==
  \/ GridSetGrid
  \/ GridSetColumnHorizontalStretch
  \/ GridSetColumnMinimumWidth
  \/ GridSetRowVerticalStretch
  \/ GridSetRowMinimumHeight
  \/ GridSetColumnsMinimumWidth
  \/ GridSetRowsMinimumHeight

GridItemsNext == GridSetGrid \/ GridAddItem \/ GridAddNullItem

GridRemoveNext == GridSetGrid \/ GridAddPairItem \/ GridRemoveItem

ThreadsNext ==
  \E t \in Threads :
    \/ ThrRegister(t)
    \/ ThrNormalize(t)
    \/ ThrLoopTest(t)
    \/ ThrLoopLoad(t)
    \/ ThrLoopStore(t)
    \/ ThrInsert(t)

FairNext == FairDistribute

LinSizeNext == LinAddItem \/ LinComputeAvailableSize

ComboNext == ComboInsertItem \/ ComboRemoveItem \/ ComboSetActiveItem

ComboPolicyNext == ComboInsertItem \/ ComboGetIndexFromInsertPolicy

\* No call is made once a read outside m_items stopped the process.
ComboStateNext ==
  \/ (~comboFault /\ ComboInsertItem)
  \/ (~comboFault /\ ComboSetActiveItem)
  \/ (~comboFault /\ ComboMouseButtonRelease)

TextNext ==
  \/ TextConstruct
  \/ TextUpdateCursorPosition
  \/ TextUpdateCursorToPosition
  \/ TextAddCharToText
  \/ TextStartSelection
  \/ TextStopSelection

Next ==
  \/ LinNext \/ GridLinesNext \/ GridItemsNext \/ ThreadsNext \/ FairNext
  \/ LinSizeNext
  \/ ComboNext \/ ComboPolicyNext \/ ComboStateNext
  \/ TextNext
  \/ GridRemoveNext

SpecLinear == Init /\ [][LinNext]_vars

SpecGridLines == Init /\ [][GridLinesNext]_vars

SpecGridItems == Init /\ [][GridItemsNext]_vars

\* Two items placed in a grid and removed from it.
SpecGridRemove == Init /\ [][GridRemoveNext]_vars

\* One layout under test, a LinearLayout or a GridLayout: the calls go to
\* the one of the two instances that was called first.
LayoutsNext ==
  \/ (gridOp.op = "none" /\ LinNext)
  \/ (linOp.op = "none" /\ GridItemsNext)

SpecLayouts == Init /\ [][LayoutsNext]_vars

SpecThreads == Init /\ [][ThreadsNext]_vars

\* The allocator as a function of its inputs.
InitFair ==
  LinInit /\ GridInit /\ ThrInit /\ FairInitAny /\ SizeInit /\ ComboInit /\ StateInit /\ TextInit

SpecFair == InitFair /\ [][FairNext]_vars

\* Items appended to a LinearLayout of any direction and margin, and the
\* available size asked for.
InitLinearSize ==
  LinInit /\ GridInit /\ ThrInit /\ FairInit /\ SizeInitAny /\ ComboInit /\ StateInit /\ TextInit

SpecLinearSize == InitLinearSize /\ [][LinSizeNext]_vars

\* Items inserted, removed and made active in a combobox.
SpecCombo == Init /\ [][ComboNext]_vars

\* Items inserted in a combobox of any policy, and the index its policy
\* gives to a text.
InitComboPolicy ==
  LinInit /\ GridInit /\ ThrInit /\ FairInit /\ SizeInit /\ ComboInitAny /\ StateInit /\ TextInit

SpecComboPolicy == InitComboPolicy /\ [][ComboPolicyNext]_vars

\* Items inserted and made active in a combobox, and mouse buttons released
\* inside and outside it.
SpecComboState == Init /\ [][ComboStateNext]_vars

\* A TextBox constructed with any text, its cursor moved, characters typed
\* and selections started and stopped.
SpecTextBox == Init /\ [][TextNext]_vars

(***************************************************************************)
(* Readings of the LinearLayout state used by the properties.              *)
(***************************************************************************)
\* The table holds exactly the ids of [0, n), each once.
TableIsPermutation(table, n) ==
  /\ Len(table) = n
  /\ \A id \in 0 .. n - 1 : Cardinality({p \in 1 .. Len(table) : table[p] = id}) = 1

\* The item registered under an allocation id (the null item when none is).
ItemOfId(items, id) ==
  IF \E i \in DOMAIN items : items[i] = id
    THEN CHOOSE i \in DOMAIN items : items[i] = id
    ELSE NullItem

\* The logical order as items: the item each table element designates.
LogicalOrder(items, table) ==
  [p \in 1 .. Len(table) |-> ItemOfId(items, table[p])]

\* The live allocation ids are exactly [0, count).
DenseIds(items) ==
  /\ \A i, j \in DOMAIN items : i # j => items[i] # items[j]
  /\ {items[i] : i \in DOMAIN items} = 0 .. getItemsCount(items) - 1

\* A sequence without the elements equal to x.
Without(seq, x) == SelectSeq(seq, LAMBDA e : e # x)

(***************************************************************************)
(* C1: after every addItem(item), addItem(item, index) and removeItem(item)*)
(* the logical position table is a permutation of [0, itemsCount()).       *)
(***************************************************************************)
C1_TableIsPermutation ==
  TableIsPermutation(m_idsToPosition, getItemsCount(linItems))

(***************************************************************************)
(* C2: addItem(item, k) with 0 <= k <= N, called on a layout whose table   *)
(* is a permutation, puts the new item at logical index k and keeps the    *)
(* relative logical order of the existing items.                           *)
(***************************************************************************)
C2_InsertKeepsOrder ==
  [][(/\ linOp'.op = "addItemAt"
      /\ linErr' = "none"
      /\ linOp'.index \in 0 .. getItemsCount(linItems)
      /\ TableIsPermutation(m_idsToPosition, getItemsCount(linItems)))
     => LogicalOrder(linItems', m_idsToPosition')
          = VectorInsert(LogicalOrder(linItems, m_idsToPosition),
                         linOp'.index, linOp'.item)]_vars

(***************************************************************************)
(* C3: removeItem(item) of a registered item leaves, as logical order of   *)
(* the remaining items, the previous logical order with the removed item   *)
(* taken out, and deletes exactly one table entry.                         *)
(***************************************************************************)
C3_RemoveKeepsOrder ==
  [][(/\ linOp'.op = "removeItem"
      /\ linRet' >= 0)
     => /\ Len(m_idsToPosition') = Len(m_idsToPosition) - 1
        /\ LogicalOrder(linItems', m_idsToPosition')
             = Without(LogicalOrder(linItems, m_idsToPosition), linOp'.item)]_vars

(***************************************************************************)
(* C4: density of the item registry.  After each operation the live ids    *)
(* are exactly [0, itemsCount()); addItem returns the item count before    *)
(* the call; removeItem of id r returns r and decrements every id greater  *)
(* than r.                                                                 *)
(***************************************************************************)
C4_DenseRegistry ==
  [][/\ DenseIds(linItems')
     /\ (linOp'.op \in {"addItem", "addItemAt"} /\ linErr' = "none")
          => /\ linRet' = getItemsCount(linItems)
             /\ linItems'[linOp'.item] = linRet'
             /\ \A i \in DOMAIN linItems : linItems'[i] = linItems[i]
     /\ (linOp'.op = "removeItem" /\ linOp'.item \in DOMAIN linItems)
          => /\ linRet' = linItems[linOp'.item]
             /\ DOMAIN linItems' = DOMAIN linItems \ {linOp'.item}
             /\ \A i \in DOMAIN linItems' :
                  linItems'[i] = IF linItems[i] > linRet'
                                   THEN linItems[i] - 1 ELSE linItems[i]]_vars

\* An item of id 0 was removed from a registry that held greater ids.
C4_Witness ==
  /\ linOp.op = "removeItem"
  /\ linRet = 0
  /\ getItemsCount(linItems) >= 2
(***************************************************************************)
(* Readings of the GridLayout state used by the properties.                *)
(***************************************************************************)
\* The four setters of one LineInfo entry.
LineSetters ==
  {"setColumnHorizontalStretch", "setColumnMinimumWidth",
   "setRowVerticalStretch", "setRowMinimumHeight"}

\* The number of lines on the axis of the last setter called.
LineCount == IF gridOp.axis = "column" THEN m_columns ELSE m_rows

\* The last call is an addItem that stored a placement.
ItemPlaced ==
  /\ gridOp.op = "addItem"
  /\ gridOp.item # NullItem
  /\ gridErr = "none"

\* The grid has at least one column and one row.
Configured == m_columns >= 1 /\ m_rows >= 1

(***************************************************************************)
(* C5: a per-line setter called with an index that is not a line of the    *)
(* grid (index >= count, the index equal to the count included) fails with *)
(* OutOfRange and writes nothing.                                          *)
(***************************************************************************)
C5_SetterRejectsNonLine ==
  (gridOp.op \in LineSetters /\ gridOp.line >= LineCount)
    => (gridErr = "OutOfRange" /\ ~gridOob)

(***************************************************************************)
(* C6: in every state reachable by setGrid and addItem calls, every stored *)
(* placement satisfies column + width <= columns and row + height <= rows. *)
(***************************************************************************)
C6_PlacementsInsideGrid ==
  \A id \in DOMAIN m_locations :
    /\ m_locations[id].column + m_locations[id].width <= m_columns
    /\ m_locations[id].row + m_locations[id].height <= m_rows

(***************************************************************************)
(* C7: on a configured grid addItem(item, x, y, w, h) stores               *)
(* column = min(x, columns - 1), row = min(y, rows - 1),                   *)
(* width = min(w, columns - column), height = min(h, rows - row); in a     *)
(* 4x3 grid addItem(x=3, y=0, w=4, h=1) stores column 3 and width 1.       *)
(***************************************************************************)
C7_ClampedPlacement ==
  /\ (ItemPlaced /\ Configured) =>
       LET p == m_locations[gridRet] IN
       /\ p.column = Min(gridOp.x, m_columns - 1)
       /\ p.row = Min(gridOp.y, m_rows - 1)
       /\ p.width = Min(gridOp.w, m_columns - p.column)
       /\ p.height = Min(gridOp.h, m_rows - p.row)
  /\ GridLayout_placement(4, 3, 3, 0, 4, 1).column = 3
  /\ GridLayout_placement(4, 3, 3, 0, 4, 1).width = 1

\* An item was placed on a configured grid with its column and its width
\* both clamped.
C7_Witness ==
  /\ ItemPlaced
  /\ Configured
  /\ gridOp.x > m_columns - 1
  /\ gridOp.w > 1
  /\ m_locations[gridRet].column = m_columns - 1
  /\ m_locations[gridRet].width = 1

(***************************************************************************)
(* C8: on a grid with zero columns or zero rows addItem stores column 0,   *)
(* row 0, width 1, height 1 whatever x, y, w, h.                           *)
(***************************************************************************)
C8_UnconfiguredPlacement ==
  (ItemPlaced /\ ~Configured)
    => m_locations[gridRet] = [column |-> 0, row |-> 0, width |-> 1, height |-> 1]

(***************************************************************************)
(* C9: on a configured grid every placement stored by addItem has          *)
(* width >= 1 and height >= 1, for every w and h, 0 included.              *)
(***************************************************************************)
C9_SpanAtLeastOne ==
  (ItemPlaced /\ Configured)
    => (m_locations[gridRet].width >= 1 /\ m_locations[gridRet].height >= 1)

(***************************************************************************)
(* C10: after setGrid(c, r) the column count is c, the row count is r,     *)
(* there are c column LineInfo entries and r row LineInfo entries, each    *)
(* with minimum 0 and stretch 0, whatever was set before.                  *)
(***************************************************************************)
C10_SetGridResetsLines ==
  gridOp.op = "setGrid" =>
    /\ m_columns = gridOp.columns
    /\ m_rows = gridOp.rows
    /\ Len(m_columnsInfo) = gridOp.columns
    /\ Len(m_rowsInfo) = gridOp.rows
    /\ \A l \in 1 .. Len(m_columnsInfo) :
         m_columnsInfo[l].min = 0 /\ m_columnsInfo[l].stretch = 0
    /\ \A l \in 1 .. Len(m_rowsInfo) :
         m_rowsInfo[l].min = 0 /\ m_rowsInfo[l].stretch = 0

\* setGrid was called on a grid that had a stretch or a minimum set, and
\* left a grid with columns and rows.
C10_Witness ==
  /\ gridOp.op = "setGrid"
  /\ gridOp.configured
  /\ Configured
(***************************************************************************)
(* C11: removeItem(item) of an item that is not registered returns a       *)
(* negative id and leaves the registry and the logical position table      *)
(* unchanged.                                                              *)
(***************************************************************************)
C11_RemoveUnregistered ==
  [][(linOp'.op = "removeItem" /\ linOp'.item \notin DOMAIN linItems)
     => /\ linRet' < 0
        /\ linItems' = linItems
        /\ m_idsToPosition' = m_idsToPosition
        /\ ~linWarned']_vars

\* removeItem of an unregistered item was called on a layout that holds
\* items.
C11_Witness ==
  /\ linOp.op = "removeItem"
  /\ linOp.item \notin DOMAIN linItems
  /\ linRet < 0
  /\ getItemsCount(linItems) >= 2
  /\ Len(m_idsToPosition) >= 2

(***************************************************************************)
(* C16: addItem(item) leaves what addItem(item, itemsCount()) leaves and   *)
(* returns the same id; the new item is last in logical order and the      *)
(* logical indices of the existing items are unchanged.                    *)
(***************************************************************************)
C16_AddItemAppends ==
  [][(linOp'.op = "addItem" /\ linErr' = "none")
     => LET r == LinearLayout_addItemAt(linItems, m_idsToPosition, linOp'.item,
                                        getItemsCount(linItems)) IN
        /\ linItems' = r.items
        /\ m_idsToPosition' = r.table
        /\ linRet' = r.ret
        /\ m_idsToPosition' = Append(m_idsToPosition, linRet')
        /\ LogicalOrder(linItems', m_idsToPosition')
             = Append(LogicalOrder(linItems, m_idsToPosition), linOp'.item)]_vars

(***************************************************************************)
(* C17: addItem(item, index) normalizes index into [0, itemsCount() - 1],  *)
(* itemsCount() counted after the registration: a negative index puts the  *)
(* new item at logical index 0, an index >= the new count puts it at       *)
(* logical index itemsCount() - 1; the value returned is the allocation id *)
(* (the item count before the call), not the logical index.                *)
(***************************************************************************)
C17_IndexNormalized ==
  [][(linOp'.op = "addItemAt" /\ linErr' = "none")
     => LET count == getItemsCount(linItems')
            at    == IF linOp'.index < 0 THEN 0
                     ELSE IF linOp'.index >= count THEN count - 1
                     ELSE linOp'.index
        IN  /\ m_idsToPosition'[at + 1] = linRet'
            /\ ItemOfId(linItems', m_idsToPosition'[at + 1]) = linOp'.item
            /\ linRet' = getItemsCount(linItems)
            /\ linItems'[linOp'.item] = linRet']_vars

\* A third item was added with an index past the end: it was given id 2 and
\* logical index 2.
C17_Witness ==
  /\ linOp.op = "addItemAt"
  /\ linErr = "none"
  /\ linOp.index >= getItemsCount(linItems)
  /\ getItemsCount(linItems) = 3
  /\ linRet = 2
(***************************************************************************)
(* C12: addItem with a null item, on a LinearLayout or on a GridLayout,    *)
(* fails with an InvalidItem error and is not partially applied: the item  *)
(* count, the logical position table and m_locations are as before the     *)
(* call.                                                                   *)
(***************************************************************************)
C12_NullItemRefused ==
  [][/\ (linOp'.op \in {"addItem", "addItemAt"} /\ linOp'.item = NullItem)
        => /\ linErr' = "InvalidItem"
           /\ getItemsCount(linItems') = getItemsCount(linItems)
           /\ linItems' = linItems
           /\ m_idsToPosition' = m_idsToPosition
     /\ (gridOp'.op = "addItem" /\ gridOp'.item = NullItem)
        => /\ gridErr' = "InvalidItem"
           /\ getItemsCount(gridItems') = getItemsCount(gridItems)
           /\ gridItems' = gridItems
           /\ m_locations' = m_locations]_vars

\* A null item was refused by a GridLayout that has cells and holds a
\* placement.
C12_Witness ==
  /\ gridOp.op = "addItem"
  /\ gridOp.item = NullItem
  /\ gridErr = "InvalidItem"
  /\ m_columns >= 1
  /\ DOMAIN m_locations # {}
(***************************************************************************)
(* C13: calls made from two threads to entry points of one layout instance *)
(* never interleave: at most one thread is inside a call at a time (each   *)
(* call holds the instance lock for its whole duration), and once both     *)
(* calls returned the layout is in the state one of the two serial orders  *)
(* of the calls gives; no call stops the process or corrupts the vector.   *)
(***************************************************************************)
C13_CallsSerialized ==
  /\ ~(\A t \in Threads : thrPc[t] \notin {"ready", "done"})
  /\ ~thrFault
  /\ ~thrCorrupt
  /\ (\A t \in Threads : thrPc[t] = "done")
       => <<linItems, m_idsToPosition>> \in
            {SerialOutcome(1, 2), SerialOutcome(2, 1)}
(***************************************************************************)
(* C14: for every slot sequence and every total >= the sum of the slot     *)
(* minimums, the sizes the allocator returns sum to exactly total, and     *)
(* every size is >= the minimum of its slot.                               *)
(***************************************************************************)
SumOfMinimums(slots) == SeqSum([i \in 1 .. Len(slots) |-> slots[i].min])

AllMinimumsZero(slots) == \A i \in 1 .. Len(slots) : slots[i].min = 0
SumOfStretches(slots) == SeqSum([i \in 1 .. Len(slots) |-> slots[i].stretch])
Abs(x) == IF x >= 0 THEN x ELSE -x

\* |size_i - total x stretch_i / sum|, multiplied by sum
Deviation(i) ==
  Abs(GridLayout_columnWidths(fairSlots, fairTotal)[i] * SumOfStretches(fairSlots)
        - fairTotal * fairSlots[i].stretch)

ExampleStretches ==
  <<[min |-> 0, stretch |-> 1], [min |-> 0, stretch |-> 2], [min |-> 0, stretch |-> 1]>>

C15_LessThanOneUnit ==
  (fairDone /\ AllMinimumsZero(fairSlots) /\ SumOfStretches(fairSlots) > 0)
    => /\ fairSizes = GridLayout_columnWidths(fairSlots, fairTotal)
       /\ \A i \in 1 .. Len(fairSlots) : Deviation(i) < SumOfStretches(fairSlots)
       /\ (fairSlots = ExampleStretches /\ fairTotal = ExampleWidth)
            => fairSizes = <<100, 200, 100>>

(***************************************************************************)
(* C15 (amended): with all minimums 0 and some stretch > 0, the width of   *)
(* each column differs from width x stretch_i / (sum of the stretches) by  *)
(* at most one unit whatever the order of the columns, and by less than    *)
(* one unit when the division leaves nothing over; stretches 1, 2, 1       *)
(* against width 400 give the widths [100, 200, 100].                      *)
(***************************************************************************)
C15_WithinOneUnit ==
  (fairDone /\ AllMinimumsZero(fairSlots) /\ SumOfStretches(fairSlots) > 0)
    => /\ fairSizes = GridLayout_columnWidths(fairSlots, fairTotal)
       /\ \A i \in 1 .. Len(fairSlots) : Deviation(i) <= SumOfStretches(fairSlots)
       /\ (fairSizes = Distribute_Truncated(fairTotal, fairSlots))
            => \A i \in 1 .. Len(fairSlots) : Deviation(i) < SumOfStretches(fairSlots)
       /\ (fairSlots = ExampleStretches /\ fairTotal = ExampleWidth)
            => fairSizes = <<100, 200, 100>>

\* The worked example was computed.
C15_Witness ==
  /\ fairDone
  /\ fairSlots = ExampleStretches
  /\ fairTotal = ExampleWidth
  /\ fairSizes = <<100, 200, 100>>
(***************************************************************************)
(* C18: computeAvailableSize(totalArea) returns the base available size    *)
(* with (itemsCount() - 1) x margin subtracted from the width only for a   *)
(* horizontal layout and from the height only for a vertical layout; the   *)
(* other dimension is the one of the base available size.                  *)
(***************************************************************************)
C18_MarginsAlongAxis ==
  sizeOp.op = "computeAvailableSize"
    => LET between == (sizeOp.count - 1) * m_componentMargin IN
       /\ m_direction = "Horizontal"
            => /\ sizeRet.w = sizeOp.internalSize.w - between
               /\ sizeRet.h = sizeOp.internalSize.h
       /\ m_direction = "Vertical"
            => /\ sizeRet.w = sizeOp.internalSize.w
               /\ sizeRet.h = sizeOp.internalSize.h - between

\* The size was asked of a vertical layout with a margin that holds three
\* items: two margins were taken off the height.
C18_Witness ==
  /\ sizeOp.op = "computeAvailableSize"
  /\ m_direction = "Vertical"
  /\ m_componentMargin > 0
  /\ sizeOp.count = 3
  /\ getItemsCount(linItems) = 3
  /\ sizeRet.h = sizeOp.internalSize.h - 2 * m_componentMargin
  /\ sizeRet.w = sizeOp.internalSize.w
(***************************************************************************)
(* C19: insertItem(index, text, icon) adds exactly one item: first when    *)
(* index < 0, last when index >= getItemsCount(), at position index        *)
(* otherwise; the items present before the call keep their relative order. *)
(***************************************************************************)
C19_InsertItemPosition ==
  [][comboOp'.op = "insertItem"
     => LET count    == ComboBox_getItemsCount(m_items)
            position == IF comboOp'.index < 0 THEN 0
                        ELSE IF comboOp'.index >= count THEN count
                        ELSE comboOp'.index
        IN  /\ ComboBox_getItemsCount(m_items') = count + 1
            /\ m_items'[position + 1] = [text |-> comboOp'.text, icon |-> comboOp'.icon]
            /\ VectorErase(m_items', position) = m_items]_vars

\* An item was inserted at position 1 of a combobox that held two other
\* items.
C19_Witness ==
  /\ comboOp.op = "insertItem"
  /\ comboOp.index = 1
  /\ Len(m_items) = 3
  /\ m_items[2] = [text |-> comboOp.text, icon |-> comboOp.icon]
  /\ m_items[1] # m_items[2]
  /\ m_items[3] # m_items[2]
  /\ m_items[1] # m_items[3]

(***************************************************************************)
(* C20: with InsertAlphabetically, for a combobox whose items are sorted   *)
(* by text, the index getIndexFromInsertPolicy(text) returns is a position *)
(* where inserting text keeps the items sorted: no item before it has a    *)
(* text greater than text and no item from it on has a text less than      *)
(* text.                                                                   *)
(***************************************************************************)
SortedByText(items) ==
  \A i, j \in 1 .. Len(items) : i < j => items[i].text <= items[j].text

C20_AlphabeticalIndexKeepsSorted ==
  (/\ comboOp.op = "getIndexFromInsertPolicy"
   /\ m_insertPolicy = "InsertAlphabetically"
   /\ SortedByText(m_items))
    => /\ comboErr = "none"
       /\ \A p \in 1 .. Len(m_items) :
            /\ p <= comboRet.index => ~(m_items[p].text > comboOp.text)
            /\ p > comboRet.index => ~(m_items[p].text < comboOp.text)
(***************************************************************************)
(* C21: when the combobox has an active item, insertItem(index, text,      *)
(* icon) keeps the active item on the same entry for every index           *)
(* (negative, in range, past the end): the text and icon m_activeItem      *)
(* designates after the call are those it designated before the call.      *)
(***************************************************************************)
\* The entry m_items[activeItem], and a mark when the read is outside the
\* vector.
EntryAt(items, activeItem) ==
  IF activeItem >= 0 /\ activeItem < Len(items)
    THEN items[activeItem + 1]
    ELSE [text |-> -1, icon |-> -1]

C21_InsertKeepsActiveEntry ==
  [][(comboOp'.op = "insertItem" /\ ComboBox_hasActiveItem(m_activeItem))
     => EntryAt(m_items', m_activeItem') = EntryAt(m_items, m_activeItem)]_vars

(***************************************************************************)
(* C22: after any sequence of insertItem, removeItem and setActiveItem     *)
(* calls that raise no error, m_activeItem is -1 (no active item) or a     *)
(* valid index, 0 <= m_activeItem < getItemsCount().                       *)
(***************************************************************************)
C22_ActiveItemValid ==
  \/ m_activeItem = -1
  \/ (0 <= m_activeItem /\ m_activeItem < ComboBox_getItemsCount(m_items))

(***************************************************************************)
(* C23: removeItem(index) of an item other than the active one leaves the  *)
(* active item on the same entry (same text and icon) as before the call;  *)
(* removing the active item makes the entry that followed it active, or    *)
(* the new last entry when the removed item was last.                      *)
(***************************************************************************)
C23_RemoveKeepsActiveEntry ==
  [][(comboOp'.op = "removeItem" /\ comboErr' = "none"
        /\ ComboBox_hasActiveItem(m_activeItem))
     => LET count == ComboBox_getItemsCount(m_items) IN
        /\ comboOp'.index # m_activeItem
             => EntryAt(m_items', m_activeItem') = EntryAt(m_items, m_activeItem)
        /\ (comboOp'.index = m_activeItem /\ m_activeItem < count - 1)
             => EntryAt(m_items', m_activeItem') = EntryAt(m_items, m_activeItem + 1)
        /\ (comboOp'.index = m_activeItem /\ m_activeItem = count - 1)
             => m_activeItem' = ComboBox_getItemsCount(m_items') - 1]_vars

(***************************************************************************)
(* C27: removeItem(index) with index < 0 or index >= getItemsCount()       *)
(* raises an error and leaves the item list and the active item unchanged. *)
(***************************************************************************)
C27_RemoveOutOfRange ==
  [][(comboOp'.op = "removeItem"
        /\ (comboOp'.index < 0 \/ comboOp'.index >= ComboBox_getItemsCount(m_items)))
     => /\ comboErr' = "No such item"
        /\ m_items' = m_items
        /\ m_activeItem' = m_activeItem]_vars

\* removeItem was refused on a combobox that holds items, one of them
\* active, for an index just past the end.
C27_Witness ==
  /\ comboOp.op = "removeItem"
  /\ comboErr = "No such item"
  /\ comboOp.index = ComboBox_getItemsCount(m_items)
  /\ ComboBox_getItemsCount(m_items) >= 2
  /\ m_activeItem = 1
(***************************************************************************)
(* C24: setState(Dropped), as reached by a mouse button release inside a   *)
(* closed combobox, reads m_items only at indices in [0, getItemsCount()), *)
(* including when the combobox is empty or has no active item.             *)
(***************************************************************************)
C24_DropReadsInsideItems ==
  (comboOp.op = "mouseButtonReleaseEvent" /\ comboOp.inside /\ comboOp.from = "Closed")
    => /\ ReadsInside(comboOp.reads, m_items)
       /\ ~comboFault

(***************************************************************************)
(* C26: on mouseButtonReleaseEvent, a release outside the widget always    *)
(* leaves the state Closed; a release inside a Closed combobox makes it    *)
(* Dropped; a release inside a Dropped combobox leaves it Dropped;         *)
(* setState with the current state changes nothing and posts no resize     *)
(* event.                                                                  *)
(***************************************************************************)
C26_StateTransitions ==
  [][comboOp'.op = "mouseButtonReleaseEvent"
     => /\ ~comboOp'.inside => m_state' = "Closed"
        /\ (comboOp'.inside /\ m_state = "Closed") => m_state' = "Dropped"
        /\ (comboOp'.inside /\ m_state = "Dropped") => m_state' = "Dropped"
        /\ m_state' = m_state => (~comboOp'.resized /\ comboOp'.reads = {})
        /\ LET same == ComboBox_setState(m_state, m_state, m_items, m_activeItem) IN
             same.state = m_state /\ ~same.resized
        /\ m_items' = m_items /\ m_activeItem' = m_activeItem]_vars

\* A release outside a dropped combobox with an active item closed it and
\* posted a resize event.
C26_Witness ==
  /\ comboOp.op = "mouseButtonReleaseEvent"
  /\ ~comboOp.inside
  /\ comboOp.from = "Dropped"
  /\ m_state = "Closed"
  /\ comboOp.resized
  /\ m_activeItem = 1
  /\ ~comboFault
(***************************************************************************)
(* C28: after any sequence of updateCursorPosition,                        *)
(* updateCursorToPosition, addCharToText, startSelection and               *)
(* stopSelection, the cursor index and the selection start stay within     *)
(* the text: 0 <= m_cursorIndex <= m_text.size() and                       *)
(* m_selectionStart <= m_text.size().                                      *)
(***************************************************************************)
C28_CursorAndSelectionInText ==
  textConstructed
    => /\ 0 <= m_cursorIndex
       /\ m_cursorIndex <= Len(m_text)
       /\ m_selectionStart <= Len(m_text)

(***************************************************************************)
(* C29: in every reachable TextBox state the three rendered parts          *)
(* partition the text: getLeftText() followed by getSelectedText()         *)
(* followed by getRightText() equals m_text, and hasLeftTextPart(),        *)
(* hasSelectedTextPart(), hasRightTextPart() are true exactly when the     *)
(* corresponding part is non-empty.                                        *)
(***************************************************************************)
C29_PartsPartitionText ==
  textConstructed =>
    \A hasL, getL, hasS, getS, hasR, getR \in ReadBool(m_selectionStarted) :
      LET left     == TextBox_getLeftText(m_text, m_cursorIndex, getL, m_selectionStart)
          selected == TextBox_getSelectedText(m_text, m_cursorIndex, getS,
                                              m_selectionStart)
          right    == TextBox_getRightText(m_text, m_cursorIndex, getR, m_selectionStart)
      IN  /\ ~SubstrThrows(m_text, IF getR THEN Max(m_cursorIndex, m_selectionStart)
                                           ELSE m_cursorIndex)
          /\ getS => ~SubstrThrows(m_text, Min(m_selectionStart, m_cursorIndex))
          /\ left \o selected \o right = m_text
          /\ TextBox_hasLeftTextPart(m_cursorIndex, hasL, m_selectionStart)
               <=> left # <<>>
          /\ TextBox_hasSelectedTextPart(m_cursorIndex, hasS, m_selectionStart)
               <=> selected # <<>>
          /\ TextBox_hasRightTextPart(m_text, m_cursorIndex, hasR, m_selectionStart)
               <=> right # <<>>

(***************************************************************************)
(* C25: in a LinearLayout modified only through addItem(item),             *)
(* addItem(item, index) and removeItem(item), removeItem of a registered   *)
(* item always finds the logical-table entry of the removed id: the        *)
(* consistency-warning branch, which returns without erasing any table     *)
(* entry, is never reached.                                                *)
(***************************************************************************)
C25_RemoveFindsTableEntry ==
  [][(linOp'.op = "removeItem" /\ linOp'.item \in DOMAIN linItems)
     => /\ ~linWarned'
        /\ Len(m_idsToPosition') = Len(m_idsToPosition) - 1]_vars
(***************************************************************************)
(* C30: in a GridLayout, after removeItem of one item, every remaining     *)
(* item still has the cell placement (column, row, width, height)          *)
(* recorded by its own addItem, when the placement is looked up by the     *)
(* item's re-labelled allocation id.                                       *)
(***************************************************************************)
C30_RemoveKeepsPlacements ==
  (gridOp.op = "removeItem" /\ gridRet >= 0)
    => \A i \in DOMAIN gridItems :
         /\ gridItems[i] \in DOMAIN m_locations
         /\ m_locations[gridItems[i]] = gridPlaced[i]
=============================================================================
